---- MODULE Spec2Model ----
(***************************************************************************)
(* Model of src/src/chaos_framework.py: the ChaosFramework object, its     *)
(* methods (one action per statement that touches the database, the        *)
(* registry or the counters) and the two ways the methods are driven:      *)
(* main() -> run_chaos_suite() (specification Spec), and a client that     *)
(* calls the public methods directly (specification SpecApi).              *)
(* SpecReport checks generate_report's score and assessment as a function  *)
(* of the registry contents.                                               *)
(*                                                                         *)
(* Every call into psycopg2 (connect, cursor, execute, fetch, close) has a *)
(* nondeterministic outcome: it returns or it raises.                      *)
(***************************************************************************)
EXTENDS Integers, Sequences, FiniteSets, TLC

\* ------------------------------------------------------------------ bounds
\* Longest registry handed to generate_report in SpecReport.
MaxExp == 5
\* Number of method calls the client of SpecApi makes.
MaxCalls == 2

\* -------------------------------------------------------- program constants
max_connections == 10
max_attempts == 10
trials == 10

\* Latencies (ms) a timed query can be measured at.
Latencies == {0, 5, 500}
\* pg_stat_activity counts capture_baseline can read.
ConnCounts == {1}

VARIABLES
  pc,                \* control location: the statement about to execute
  caller,            \* "run_chaos_suite" or "client": who called the running method
  calls,             \* number of calls the client has made
  invoked,           \* the methods called so far, in call order
  last_exit,         \* <<method, "returned" | "raised">> of the last method left
  exit_status,       \* process exit status; -1 while the process runs
  clock,             \* wall clock, advanced by sleeps
  conn,              \* self.conn: "None" or "open"
  experiments,       \* self.experiments
  baseline_metrics,  \* self.baseline_metrics: a function; <<>> is {}
  experiment,        \* the running injector's local ChaosExperiment
  assigned,          \* number of assignments made to experiment.result
  connections,       \* inject_connection_saturation: local list, one state per session
  extra_conn,        \* inject_connection_saturation: the probe session
  orphaned,          \* sessions left open by a frame that has exited
  latency,           \* local: the latency last measured
  i,                 \* loop index (saturation cleanup, random-failure trials)
  success_count,     \* inject_random_failures
  failure_count,     \* inject_random_failures
  attempts,          \* test_recovery_time
  queries,           \* test_recovery_time: liveness queries issued
  backoffs,          \* test_recovery_time: backoff sleeps taken
  report             \* what generate_report printed: score and assessment

vars == <<pc, caller, calls, invoked, last_exit, exit_status, clock, conn,
          experiments, baseline_metrics, experiment, assigned,
          connections, extra_conn, orphaned, latency, i, success_count,
          failure_count, attempts, queries, backoffs, report>>

\* ----------------------------------------------------------------- values
NoTime == 0 - 1
NoExperiment == [name |-> "", start_time |-> NoTime, end_time |-> NoTime,
                 result |-> "None", observations |-> <<>>]
NoReport == [printed |-> FALSE, total |-> 0, completed |-> 0, failed |-> 0,
             score |-> [num |-> 0, den |-> 1], assessment |-> ""]
NoExit == <<"", "">>

\* ChaosExperiment.__init__
ChaosExperiment(n) ==
  [name |-> n, start_time |-> NoTime, end_time |-> NoTime,
   result |-> "None", observations |-> <<>>]

\* An observation string: its fixed text, the error or label it embeds, and up
\* to two numbers formatted into it.
Obs(text, detail, x, y) == [text |-> text, detail |-> detail, x |-> x, y |-> y]

\* experiment.observations.append(o)
Observe(e, o) == [e EXCEPT !.observations = Append(@, o)]

\* ------------------------------------------------------ calls and returns
Injectors == {"inject_high_cpu_load", "inject_connection_saturation",
              "inject_slow_queries", "inject_random_failures"}

Methods == {"connect", "setup", "capture_baseline", "test_recovery_time",
            "generate_report"} \cup Injectors

\* First control location of each method.
Entry(m) ==
  CASE m = "connect" -> "connect"
    [] m = "setup" -> "setup_cursor"
    [] m = "capture_baseline" -> "base_cursor"
    [] m = "inject_high_cpu_load" -> "cpu_new"
    [] m = "inject_connection_saturation" -> "sat_new"
    [] m = "inject_slow_queries" -> "slow_new"
    [] m = "inject_random_failures" -> "rand_new"
    [] m = "test_recovery_time" -> "rec_cursor"
    [] m = "generate_report" -> "report"

\* run_chaos_suite without the pause of line 402 between the first two injectors.
SuiteAfterNoPause(m) ==
  CASE m = "connect" -> "call_setup"
    [] m = "setup" -> "call_capture_baseline"
    [] m = "capture_baseline" -> "sleep_396"
    [] m = "inject_high_cpu_load" -> "call_inject_connection_saturation"
    [] m = "inject_connection_saturation" -> "sleep_408"
    [] m = "inject_slow_queries" -> "sleep_414"
    [] m = "inject_random_failures" -> "sleep_420"
    [] m = "test_recovery_time" -> "call_generate_report"
    [] m = "generate_report" -> "suite_return"

\* run_chaos_suite: the statement that follows the return of method m.
SuiteAfter(m) ==
  CASE m = "connect" -> "call_setup"
    [] m = "setup" -> "call_capture_baseline"
    [] m = "capture_baseline" -> "sleep_396"
    [] m = "inject_high_cpu_load" -> "sleep_402"
    [] m = "inject_connection_saturation" -> "sleep_408"
    [] m = "inject_slow_queries" -> "sleep_414"
    [] m = "inject_random_failures" -> "sleep_420"
    [] m = "test_recovery_time" -> "call_generate_report"
    [] m = "generate_report" -> "suite_return"

\* Method m returns normally to its caller.
Return(m) ==
  /\ pc' = IF caller = "client" THEN "idle" ELSE SuiteAfter(m)
  /\ last_exit' = <<m, "returned">>

\* Method m raises. Neither run_chaos_suite nor main catches anything, so in a
\* suite run the exception ends the process; a client gets the exception.
Raise(m) ==
  /\ pc' = IF caller = "client" THEN "idle" ELSE "uncaught"
  /\ last_exit' = <<m, "raised">>

\* The caller invokes method m.
Call(m) ==
  /\ pc' = Entry(m)
  /\ invoked' = Append(invoked, m)

\* self.conn.cursor(): raises AttributeError while self.conn is None, and may
\* raise on a connection that broke
CursorOutcomes == IF conn = "open" THEN BOOLEAN ELSE {FALSE}

Frame == <<experiment, assigned, connections, extra_conn, orphaned, latency, i,
           success_count, failure_count, attempts, queries, backoffs>>
Driver == <<caller, calls, exit_status>>

\* ------------------------------------------------------------- connect
\* connect, lines 40-51: every failure is caught and turned into False.
Connect ==
  /\ pc = "connect"
  /\ \E ok \in BOOLEAN :
       IF ok
       THEN /\ conn' = "open"
            /\ pc' = IF caller = "client" THEN "idle" ELSE "call_setup"
       ELSE /\ conn' = conn
            /\ pc' = IF caller = "client" THEN "idle" ELSE "suite_return"
  /\ last_exit' = <<"connect", "returned">>
  /\ UNCHANGED <<Driver, invoked, clock, experiments, baseline_metrics, Frame, report>>

\* --------------------------------------------------------------- setup
\* setup, lines 55-69: cursor, execute, close; nothing is caught.
SetupCursor ==
  /\ pc = "setup_cursor"
  /\ \E ok \in CursorOutcomes :
       IF ok THEN pc' = "setup_execute" /\ last_exit' = last_exit
             ELSE Raise("setup")
  /\ UNCHANGED <<Driver, invoked, clock, conn, experiments, baseline_metrics, Frame, report>>

SetupExecute ==
  /\ pc = "setup_execute"
  /\ \E ok \in BOOLEAN :
       IF ok THEN pc' = "setup_close" /\ last_exit' = last_exit
             ELSE Raise("setup")
  /\ UNCHANGED <<Driver, invoked, clock, conn, experiments, baseline_metrics, Frame, report>>

SetupClose ==
  /\ pc = "setup_close"
  /\ \E ok \in BOOLEAN :
       IF ok THEN Return("setup") ELSE Raise("setup")
  /\ UNCHANGED <<Driver, invoked, clock, conn, experiments, baseline_metrics, Frame, report>>

\* ----------------------------------------------------- capture_baseline
\* capture_baseline, lines 76-88: cursor, two queries with their fetches, close.
\* Nothing is caught; baseline_metrics is assigned only after all of them.
BaseCursor ==
  /\ pc = "base_cursor"
  /\ \E ok \in CursorOutcomes :
       IF ok THEN pc' = "base_latency" /\ last_exit' = last_exit
             ELSE Raise("capture_baseline")
  /\ UNCHANGED <<Driver, invoked, clock, conn, experiments, baseline_metrics, Frame, report>>

\* lines 79-82: the timed COUNT(*) query and its fetch
BaseLatency ==
  /\ pc = "base_latency"
  /\ \/ \E l \in Latencies :
          /\ latency' = l
          /\ pc' = "base_connections"
          /\ last_exit' = last_exit
     \/ /\ latency' = latency
        /\ Raise("capture_baseline")
  /\ UNCHANGED <<Driver, invoked, clock, conn, experiments, baseline_metrics,
                 experiment, assigned, connections, extra_conn, orphaned, i,
                 success_count, failure_count, attempts, queries, backoffs, report>>

\* Metrics stored as soon as the first of them is known.
BaselinePartial(l, c, now) == [query_latency_ms |-> l]

\* lines 90-94: the dict assigned to self.baseline_metrics
BaselineMetrics(l, c, now) ==
  [query_latency_ms |-> l, active_connections |-> c, timestamp |-> now]

\* lines 85-97: the pg_stat_activity query, cursor.close(), then the assignment
BaseConnections ==
  /\ pc = "base_connections"
  /\ \/ \E c \in ConnCounts :
          /\ baseline_metrics' = BaselineMetrics(latency, c, clock)
          /\ Return("capture_baseline")
     \/ /\ baseline_metrics' = baseline_metrics
        /\ Raise("capture_baseline")
  /\ UNCHANGED <<Driver, invoked, clock, conn, experiments, Frame, report>>

\* ------------------------------------------------------ injector helpers
\* experiment.result = r
SetResult(e, r) == [e EXCEPT !.result = r]

\* An except branch that sets the result and drops the error.
FailedSilently(e, err) == SetResult(e, "failed")

\* except Exception as e: observations.append(f"Error: {e}"); result = "failed"
Failed(e, err) == SetResult(Observe(e, Obs("Error", err, 0, 0)), "failed")

\* The registry replaced by the new experiment instead of extended by it.
RecordOverwrite(reg, e, now) == <<[e EXCEPT !.end_time = now]>>

\* experiment.end_time = datetime.now(); self.experiments.append(experiment)
Record(reg, e, now) == Append(reg, [e EXCEPT !.end_time = now])

\* experiment.start_time = datetime.now()
Started(e, now) == [e EXCEPT !.start_time = now]

\* Number of sessions of a list that are open.
RECURSIVE OpenIn(_)
OpenIn(s) ==
  IF s = <<>> THEN 0
  ELSE (IF Head(s) = "open" THEN 1 ELSE 0) + OpenIn(Tail(s))

\* Sessions the process holds open on the server right now.
OpenSessions ==
  (IF conn = "open" THEN 1 ELSE 0) + OpenIn(connections)
  + (IF extra_conn = "open" THEN 1 ELSE 0) + orphaned

Locals == <<connections, extra_conn, orphaned, latency, i, success_count,
            failure_count, attempts, queries, backoffs>>
Shared == <<conn, experiments, baseline_metrics, report>>

\* ------------------------------------------------- inject_high_cpu_load
\* lines 102-106
CpuNew ==
  /\ pc = "cpu_new"
  /\ experiment' = ChaosExperiment("High CPU Load")
  /\ assigned' = 0
  /\ pc' = "cpu_start"
  /\ UNCHANGED <<Driver, invoked, last_exit, clock, Shared, Locals>>

\* line 108
CpuStart ==
  /\ pc = "cpu_start"
  /\ experiment' = Started(experiment, clock)
  /\ pc' = "cpu_cursor"
  /\ UNCHANGED <<Driver, invoked, last_exit, clock, Shared, assigned, Locals>>

\* line 112: outside the try
CpuCursor ==
  /\ pc = "cpu_cursor"
  /\ \E ok \in CursorOutcomes :
       IF ok THEN pc' = "cpu_execute" /\ last_exit' = last_exit
             ELSE Raise("inject_high_cpu_load")
  /\ UNCHANGED <<Driver, invoked, clock, Shared, experiment, assigned, Locals>>

\* lines 115-120, 126-128
CpuExecute ==
  /\ pc = "cpu_execute"
  /\ \E ok \in BOOLEAN :
       IF ok
       THEN /\ pc' = "cpu_fetchall"
            /\ UNCHANGED <<experiment, assigned>>
       ELSE /\ experiment' = Failed(experiment, "query")
            /\ assigned' = assigned + 1
            /\ pc' = "cpu_close"
  /\ UNCHANGED <<Driver, invoked, last_exit, clock, Shared, Locals>>

\* lines 121-128
CpuFetchall ==
  /\ pc = "cpu_fetchall"
  /\ \E ok \in BOOLEAN :
       experiment' =
         IF ok
         THEN SetResult(Observe(experiment,
                                Obs("CPU-intensive query executed", "", 0, 0)),
                        "completed")
         ELSE Failed(experiment, "query")
  /\ assigned' = assigned + 1
  /\ pc' = "cpu_close"
  /\ UNCHANGED <<Driver, invoked, last_exit, clock, Shared, Locals>>

\* line 130: outside the try
CpuClose ==
  /\ pc = "cpu_close"
  /\ \E ok \in BOOLEAN :
       IF ok THEN pc' = "cpu_end" /\ last_exit' = last_exit
             ELSE Raise("inject_high_cpu_load")
  /\ UNCHANGED <<Driver, invoked, clock, Shared, experiment, assigned, Locals>>

\* lines 132-137
CpuEnd ==
  /\ pc = "cpu_end"
  /\ experiments' = Record(experiments, experiment, clock)
  /\ Return("inject_high_cpu_load")
  /\ UNCHANGED <<Driver, invoked, clock, conn, baseline_metrics, report,
                 experiment, assigned, Locals>>

\* ----------------------------------------- inject_connection_saturation
\* lines 142-146
SatNew ==
  /\ pc = "sat_new"
  /\ experiment' = ChaosExperiment("Connection Saturation")
  /\ assigned' = 0
  /\ pc' = "sat_start"
  /\ UNCHANGED <<Driver, invoked, last_exit, clock, Shared, Locals>>

\* lines 148-153
SatStart ==
  /\ pc = "sat_start"
  /\ experiment' = Started(experiment, clock)
  /\ connections' = <<>>
  /\ extra_conn' = "None"
  /\ pc' = "sat_acquire"
  /\ UNCHANGED <<Driver, invoked, last_exit, clock, Shared, assigned,
                 orphaned, latency, i, success_count, failure_count, attempts,
                 queries, backoffs>>

\* lines 156-161, 182-184: one psycopg2.connect of the acquisition loop
SatAcquire ==
  /\ pc = "sat_acquire"
  /\ Len(connections) < max_connections
  /\ \E ok \in BOOLEAN :
       IF ok
       THEN /\ connections' = Append(connections, "open")
            /\ pc' = "sat_acquire"
            /\ UNCHANGED <<experiment, assigned, i>>
       ELSE /\ experiment' = Failed(experiment, "connect")
            /\ assigned' = assigned + 1
            /\ connections' = connections
            /\ i' = 0
            /\ pc' = "sat_cleanup"
  /\ UNCHANGED <<Driver, invoked, last_exit, clock, Shared, extra_conn, orphaned,
                 latency, success_count, failure_count, attempts, queries, backoffs>>

\* lines 163-166: the loop is over; observation and time.sleep(2)
SatHold ==
  /\ pc = "sat_acquire"
  /\ Len(connections) = max_connections
  /\ experiment' = Observe(experiment, Obs("Created connections", "", Len(connections), 0))
  /\ clock' = clock + 1
  /\ pc' = "sat_probe"
  /\ UNCHANGED <<Driver, invoked, last_exit, Shared, assigned, Locals>>

\* lines 169-174, 177-180: the probe connect; a failure is caught by the bare except
SatProbe ==
  /\ pc = "sat_probe"
  /\ \E ok \in BOOLEAN :
       IF ok
       THEN /\ extra_conn' = "open"
            /\ pc' = "sat_probe_close"
            /\ UNCHANGED <<experiment, assigned, i>>
       ELSE /\ extra_conn' = extra_conn
            /\ experiment' =
                 SetResult(Observe(experiment,
                                   Obs("Additional connection blocked (expected)", "", 0, 0)),
                           "completed")
            /\ assigned' = assigned + 1
            /\ i' = 0
            /\ pc' = "sat_cleanup"
  /\ UNCHANGED <<Driver, invoked, last_exit, clock, Shared, connections, orphaned,
                 latency, success_count, failure_count, attempts, queries, backoffs>>

\* The "succeeded" observation appended before extra_conn.close(): a failing
\* close then records both probe observations.
SatProbeCloseBoth ==
  /\ pc = "sat_probe_close"
  /\ \E ok \in BOOLEAN :
       IF ok
       THEN /\ extra_conn' = "closed"
            /\ experiment' =
                 SetResult(Observe(experiment,
                                   Obs("Additional connection succeeded", "", 0, 0)),
                           "completed")
       ELSE /\ extra_conn' = extra_conn
            /\ experiment' =
                 SetResult(Observe(Observe(experiment,
                                           Obs("Additional connection succeeded", "", 0, 0)),
                                   Obs("Additional connection blocked (expected)", "", 0, 0)),
                           "completed")
  /\ assigned' = assigned + 1
  /\ i' = 0
  /\ pc' = "sat_cleanup"
  /\ UNCHANGED <<Driver, invoked, last_exit, clock, Shared, connections, orphaned,
                 latency, success_count, failure_count, attempts, queries, backoffs>>

\* lines 175-180: extra_conn.close() inside the inner try
SatProbeClose ==
  /\ pc = "sat_probe_close"
  /\ \E ok \in BOOLEAN :
       IF ok
       THEN /\ extra_conn' = "closed"
            /\ experiment' =
                 SetResult(Observe(experiment,
                                   Obs("Additional connection succeeded", "", 0, 0)),
                           "completed")
       ELSE /\ extra_conn' = extra_conn
            /\ experiment' =
                 SetResult(Observe(experiment,
                                   Obs("Additional connection blocked (expected)", "", 0, 0)),
                           "completed")
  /\ assigned' = assigned + 1
  /\ i' = 0
  /\ pc' = "sat_cleanup"
  /\ UNCHANGED <<Driver, invoked, last_exit, clock, Shared, connections, orphaned,
                 latency, success_count, failure_count, attempts, queries, backoffs>>

\* The frame of inject_connection_saturation is left: the sessions it still
\* holds open stay open on the server with nothing left to close them.
SatLeave ==
  /\ orphaned' = orphaned + OpenIn(connections)
                 + (IF extra_conn = "open" THEN 1 ELSE 0)
  /\ connections' = <<>>
  /\ extra_conn' = "None"

\* lines 186-189: one conn.close() of the finally loop; a raise leaves the loop
SatCleanup ==
  /\ pc = "sat_cleanup"
  /\ i < Len(connections)
  /\ \E ok \in BOOLEAN :
       IF ok
       THEN /\ connections' = [connections EXCEPT ![i + 1] = "closed"]
            /\ i' = i + 1
            /\ pc' = "sat_cleanup"
            /\ UNCHANGED <<last_exit, extra_conn, orphaned>>
       ELSE /\ SatLeave
            /\ i' = i
            /\ Raise("inject_connection_saturation")
  /\ UNCHANGED <<Driver, invoked, clock, Shared, experiment, assigned, latency,
                 success_count, failure_count, attempts, queries, backoffs>>

\* lines 191-196
SatEnd ==
  /\ pc = "sat_cleanup"
  /\ i = Len(connections)
  /\ experiments' = Record(experiments, experiment, clock)
  /\ SatLeave
  /\ Return("inject_connection_saturation")
  /\ UNCHANGED <<Driver, invoked, clock, conn, baseline_metrics, report,
                 experiment, assigned, latency, i, success_count,
                 failure_count, attempts, queries, backoffs>>

\* ------------------------------------------------------------ arithmetic
\* Python floats are modelled as exact fractions num/den with den > 0.
RECURSIVE Gcd(_, _)
Gcd(a, b) == IF b = 0 THEN a ELSE Gcd(b, a % b)

Abs(a) == IF a < 0 THEN 0 - a ELSE a

\* The fraction n/d (d /= 0) in lowest terms with a positive denominator.
Frac(n, d) ==
  LET g == Gcd(Abs(n), Abs(d))
      s == IF d < 0 THEN 0 - 1 ELSE 1
  IN [num |-> s * (n \div g), den |-> s * (d \div g)]

\* q * k for a fraction q and an integer k
Times(q, k) == Frac(q.num * k, q.den)

\* q >= k for a fraction q and an integer k
AtLeast(q, k) == q.num >= k * q.den

\* The ratio to the baseline, without subtracting the baseline first.
DegradationAsRatio(l, b) == Times(Frac(l, b), 100)

\* lines 227-228: ((latency - baseline) / baseline * 100), baseline /= 0
Degradation(l, b) == Times(Frac(l - b, b), 100)

\* --------------------------------------------------- inject_slow_queries
\* lines 201-205
SlowNew ==
  /\ pc = "slow_new"
  /\ experiment' = ChaosExperiment("Slow Query Injection")
  /\ assigned' = 0
  /\ pc' = "slow_start"
  /\ UNCHANGED <<Driver, invoked, last_exit, clock, Shared, Locals>>

\* line 207
SlowStart ==
  /\ pc = "slow_start"
  /\ experiment' = Started(experiment, clock)
  /\ pc' = "slow_cursor"
  /\ UNCHANGED <<Driver, invoked, last_exit, clock, Shared, assigned, Locals>>

\* line 211: outside the try
SlowCursor ==
  /\ pc = "slow_cursor"
  /\ \E ok \in CursorOutcomes :
       IF ok THEN pc' = "slow_sleep" /\ last_exit' = last_exit
             ELSE Raise("inject_slow_queries")
  /\ UNCHANGED <<Driver, invoked, clock, Shared, experiment, assigned, Locals>>

\* lines 215-216, 233-235: SELECT pg_sleep(2) and its fetch
SlowSleep ==
  /\ pc = "slow_sleep"
  /\ \E ok \in BOOLEAN :
       IF ok
       THEN /\ clock' = clock + 1
            /\ pc' = "slow_measure"
            /\ UNCHANGED <<experiment, assigned>>
       ELSE /\ experiment' = Failed(experiment, "query")
            /\ assigned' = assigned + 1
            /\ clock' = clock
            /\ pc' = "slow_close"
  /\ UNCHANGED <<Driver, invoked, last_exit, Shared, Locals>>

\* lines 219-222, 233-235: the timed COUNT(*) query and its fetch
SlowMeasure ==
  /\ pc = "slow_measure"
  /\ \/ \E l \in Latencies :
          /\ latency' = l
          /\ pc' = "slow_observe"
          /\ UNCHANGED <<experiment, assigned>>
     \/ /\ experiment' = Failed(experiment, "query")
        /\ assigned' = assigned + 1
        /\ latency' = latency
        /\ pc' = "slow_close"
  /\ UNCHANGED <<Driver, invoked, last_exit, clock, Shared, connections,
                 extra_conn, orphaned, i, success_count, failure_count,
                 attempts, queries, backoffs>>

\* lines 224-235 on experiment e with measured latency l and baseline bm:
\* the first observation is appended, then the baseline lookup raises KeyError
\* when the key is missing, and the division raises ZeroDivisionError when the
\* baseline latency is 0; both are caught by the except of line 233.
SlowObserved(e, l, bm) ==
  LET e1 == Observe(e, Obs("Query latency during chaos", "", l, 0))
  IN IF "query_latency_ms" \notin DOMAIN bm
     THEN Failed(e1, "KeyError: 'query_latency_ms'")
     ELSE LET b  == bm["query_latency_ms"]
              e2 == Observe(e1, Obs("Baseline latency", "", b, 0))
          IN IF b = 0
             THEN Failed(e2, "ZeroDivisionError")
             ELSE SetResult(
                    Observe(e2, Obs("Performance degradation", "",
                                    Degradation(l, b).num, Degradation(l, b).den)),
                    "completed")

SlowObserve ==
  /\ pc = "slow_observe"
  /\ experiment' = SlowObserved(experiment, latency, baseline_metrics)
  /\ assigned' = assigned + 1
  /\ pc' = "slow_close"
  /\ UNCHANGED <<Driver, invoked, last_exit, clock, Shared, Locals>>

\* line 237: outside the try
SlowClose ==
  /\ pc = "slow_close"
  /\ \E ok \in BOOLEAN :
       IF ok THEN pc' = "slow_end" /\ last_exit' = last_exit
             ELSE Raise("inject_slow_queries")
  /\ UNCHANGED <<Driver, invoked, clock, Shared, experiment, assigned, Locals>>

\* lines 239-244
SlowEnd ==
  /\ pc = "slow_end"
  /\ experiments' = Record(experiments, experiment, clock)
  /\ Return("inject_slow_queries")
  /\ UNCHANGED <<Driver, invoked, clock, conn, baseline_metrics, report,
                 experiment, assigned, Locals>>

\* ------------------------------------------------ inject_random_failures
Counters == <<i, success_count, failure_count>>
OtherLocals == <<connections, extra_conn, orphaned, latency, attempts, queries, backoffs>>

\* lines 249-253
RandNew ==
  /\ pc = "rand_new"
  /\ experiment' = ChaosExperiment("Random Transaction Failures")
  /\ assigned' = 0
  /\ pc' = "rand_start"
  /\ UNCHANGED <<Driver, invoked, last_exit, clock, Shared, Locals>>

\* line 255
RandStart ==
  /\ pc = "rand_start"
  /\ experiment' = Started(experiment, clock)
  /\ pc' = "rand_cursor"
  /\ UNCHANGED <<Driver, invoked, last_exit, clock, Shared, assigned, Locals>>

\* lines 259-262: cursor (outside any try), then the counters are zeroed
RandCursor ==
  /\ pc = "rand_cursor"
  /\ \E ok \in CursorOutcomes :
       IF ok
       THEN /\ pc' = "rand_trial"
            /\ last_exit' = last_exit
            /\ i' = 0
            /\ success_count' = 0
            /\ failure_count' = 0
       ELSE /\ Raise("inject_random_failures")
            /\ UNCHANGED Counters
  /\ UNCHANGED <<Driver, invoked, clock, Shared, experiment, assigned, OtherLocals>>

\* lines 264-267: the next trial draws random.random() < 0.3
RandTrial ==
  /\ pc = "rand_trial"
  /\ i < trials
  /\ \E intentional \in BOOLEAN :
       pc' = IF intentional THEN "rand_divzero" ELSE "rand_select"
  /\ UNCHANGED <<Driver, invoked, last_exit, clock, Shared, experiment, assigned, Locals>>

\* Double counting: line 269 also runs when "SELECT 1/0" raised.
AfterDivZeroTwice(f, raised) == IF raised THEN f + 2 ELSE f + 1

\* failure_count after the intentional-error branch: line 269 when "SELECT 1/0"
\* returned, line 276 when it raised (the raise skips line 269)
AfterDivZero(f, raised) == f + 1

\* lines 268-269, 275-276: cursor.execute("SELECT 1/0")
RandDivZero ==
  /\ pc = "rand_divzero"
  /\ \E raised \in BOOLEAN :
       failure_count' = AfterDivZero(failure_count, raised)
  /\ i' = i + 1
  /\ pc' = "rand_trial"
  /\ UNCHANGED <<Driver, invoked, last_exit, clock, Shared, experiment, assigned,
                 success_count, OtherLocals>>

\* lines 271, 275-276: cursor.execute("SELECT 1")
RandSelect ==
  /\ pc = "rand_select"
  /\ \E ok \in BOOLEAN :
       IF ok
       THEN /\ pc' = "rand_fetch"
            /\ UNCHANGED Counters
       ELSE /\ failure_count' = failure_count + 1
            /\ i' = i + 1
            /\ pc' = "rand_trial"
            /\ UNCHANGED success_count
  /\ UNCHANGED <<Driver, invoked, last_exit, clock, Shared, experiment, assigned,
                 OtherLocals>>

\* lines 272-276: cursor.fetchone(), then success_count += 1
RandFetch ==
  /\ pc = "rand_fetch"
  /\ \E ok \in BOOLEAN :
       IF ok
       THEN success_count' = success_count + 1 /\ UNCHANGED failure_count
       ELSE failure_count' = failure_count + 1 /\ UNCHANGED success_count
  /\ i' = i + 1
  /\ pc' = "rand_trial"
  /\ UNCHANGED <<Driver, invoked, last_exit, clock, Shared, experiment, assigned,
                 OtherLocals>>

\* lines 278-279: after the loop
RandObserve ==
  /\ pc = "rand_trial"
  /\ i = trials
  /\ experiment' =
       SetResult(Observe(experiment,
                         Obs("Success/Failures", "", success_count, failure_count)),
                 "completed")
  /\ assigned' = assigned + 1
  /\ pc' = "rand_close"
  /\ UNCHANGED <<Driver, invoked, last_exit, clock, Shared, Locals>>

\* line 281: outside any try
RandClose ==
  /\ pc = "rand_close"
  /\ \E ok \in BOOLEAN :
       IF ok THEN pc' = "rand_end" /\ last_exit' = last_exit
             ELSE Raise("inject_random_failures")
  /\ UNCHANGED <<Driver, invoked, clock, Shared, experiment, assigned, Locals>>

\* lines 283-288
RandEnd ==
  /\ pc = "rand_end"
  /\ experiments' = Record(experiments, experiment, clock)
  /\ Return("inject_random_failures")
  /\ UNCHANGED <<Driver, invoked, clock, conn, baseline_metrics, report,
                 experiment, assigned, Locals>>

\* ---------------------------------------------------- test_recovery_time
Probe == <<attempts, queries, backoffs>>
NonProbe == <<experiment, assigned, connections, extra_conn, orphaned, latency,
              i, success_count, failure_count>>

\* lines 295-299: cursor (outside any try), then attempts = 0
RecCursor ==
  /\ pc = "rec_cursor"
  /\ \E ok \in CursorOutcomes :
       IF ok
       THEN /\ pc' = "rec_loop"
            /\ last_exit' = last_exit
            /\ attempts' = 0
            /\ queries' = 0
            /\ backoffs' = 0
       ELSE /\ Raise("test_recovery_time")
            /\ UNCHANGED Probe
  /\ UNCHANGED <<Driver, invoked, clock, Shared, NonProbe>>

\* lines 301-303, 306-307: loop test and cursor.execute("SELECT 1")
RecExecute ==
  /\ pc = "rec_loop"
  /\ attempts < max_attempts
  /\ queries' = queries + 1
  /\ \E ok \in BOOLEAN :
       IF ok
       THEN pc' = "rec_fetch" /\ attempts' = attempts
       ELSE pc' = "rec_sleep" /\ attempts' = attempts + 1
  /\ UNCHANGED <<Driver, invoked, last_exit, clock, Shared, NonProbe, backoffs>>

\* The loop without its break: a successful query goes round again.
RecFetchNoBreak ==
  /\ pc = "rec_fetch"
  /\ \E ok \in BOOLEAN :
       IF ok
       THEN pc' = "rec_loop" /\ attempts' = attempts
       ELSE pc' = "rec_sleep" /\ attempts' = attempts + 1
  /\ UNCHANGED <<Driver, invoked, last_exit, clock, Shared, NonProbe, queries, backoffs>>

\* lines 304-307: cursor.fetchone(), then break
RecFetch ==
  /\ pc = "rec_fetch"
  /\ \E ok \in BOOLEAN :
       IF ok
       THEN pc' = "rec_close" /\ attempts' = attempts
       ELSE pc' = "rec_sleep" /\ attempts' = attempts + 1
  /\ UNCHANGED <<Driver, invoked, last_exit, clock, Shared, NonProbe, queries, backoffs>>

\* line 308: time.sleep(0.5)
RecSleep ==
  /\ pc = "rec_sleep"
  /\ clock' = clock + 1
  /\ backoffs' = backoffs + 1
  /\ pc' = "rec_loop"
  /\ UNCHANGED <<Driver, invoked, last_exit, Shared, NonProbe, attempts, queries>>

\* line 301: the loop test fails once attempts reaches max_attempts
RecGiveUp ==
  /\ pc = "rec_loop"
  /\ ~(attempts < max_attempts)
  /\ pc' = "rec_close"
  /\ UNCHANGED <<Driver, invoked, last_exit, clock, Shared, Frame>>

\* lines 310-316: cursor.close() (outside any try) and the return
RecClose ==
  /\ pc = "rec_close"
  /\ \E ok \in BOOLEAN :
       IF ok THEN Return("test_recovery_time") ELSE Raise("test_recovery_time")
  /\ UNCHANGED <<Driver, invoked, clock, Shared, Frame>>

\* ------------------------------------------------------- generate_report
\* lines 326-327: the experiments of reg whose result is r
WithResult(reg, r) == SelectSeq(reg, LAMBDA e : e.result = r)

\* The completed list built from the wrong result.
CompletedFromFailed(reg) == WithResult(reg, "failed")

\* line 326
Completed(reg) == WithResult(reg, "completed")

\* line 354
Score(reg) ==
  IF reg /= <<>> THEN Times(Frac(Len(Completed(reg)), Len(reg)), 100)
  ELSE Frac(0, 1)

\* q > k for a fraction q and an integer k
Above(q, k) == q.num > k * q.den

\* The thresholds compared with > instead of >=.
AssessmentExclusive(score) ==
  IF Above(score, 80) THEN "EXCELLENT"
  ELSE IF Above(score, 60) THEN "GOOD"
  ELSE IF Above(score, 40) THEN "FAIR"
  ELSE "NEEDS IMPROVEMENT"

\* lines 358-365
Assessment(score) ==
  IF AtLeast(score, 80) THEN "EXCELLENT"
  ELSE IF AtLeast(score, 60) THEN "GOOD"
  ELSE IF AtLeast(score, 40) THEN "FAIR"
  ELSE "NEEDS IMPROVEMENT"

\* lines 318-377: reads the registry, prints; nothing in it can raise on a
\* registry whose experiments all have a result and both times set
GenerateReport ==
  /\ pc = "report"
  /\ report' = [printed |-> TRUE,
                total |-> Len(experiments),
                completed |-> Len(Completed(experiments)),
                failed |-> Len(WithResult(experiments, "failed")),
                score |-> Score(experiments),
                assessment |-> Assessment(Score(experiments))]
  /\ Return("generate_report")
  /\ UNCHANGED <<Driver, invoked, clock, conn, experiments, baseline_metrics,
                 Frame>>

\* ------------------------------------------------ run_chaos_suite and main
\* lines 440-442, 386: main builds the framework and run_chaos_suite calls connect
Main ==
  /\ pc = "main"
  /\ Call("connect")
  /\ UNCHANGED <<Driver, last_exit, clock, Shared, Frame>>

\* The method run_chaos_suite calls at each of its call sites.
CallSite ==
  [call_setup |-> "setup",
   call_capture_baseline |-> "capture_baseline",
   call_inject_high_cpu_load |-> "inject_high_cpu_load",
   call_inject_connection_saturation |-> "inject_connection_saturation",
   call_inject_slow_queries |-> "inject_slow_queries",
   call_inject_random_failures |-> "inject_random_failures",
   call_test_recovery_time |-> "test_recovery_time",
   call_generate_report |-> "generate_report"]

\* lines 389, 394, 401, 407, 413, 419, 425, 428
SuiteCall ==
  /\ pc \in DOMAIN CallSite
  /\ Call(CallSite[pc])
  /\ UNCHANGED <<Driver, last_exit, clock, Shared, Frame>>

\* The call that follows each time.sleep(2) of run_chaos_suite.
AfterSleep ==
  [sleep_396 |-> "call_inject_high_cpu_load",
   sleep_402 |-> "call_inject_connection_saturation",
   sleep_408 |-> "call_inject_slow_queries",
   sleep_414 |-> "call_inject_random_failures",
   sleep_420 |-> "call_test_recovery_time"]

\* lines 396, 402, 408, 414, 420
Sleep ==
  /\ pc \in DOMAIN AfterSleep
  /\ clock' = clock + 1
  /\ pc' = AfterSleep[pc]
  /\ UNCHANGED <<Driver, invoked, last_exit, Shared, Frame>>

\* lines 387, 430-437, 442: run_chaos_suite returns None, main returns, and the
\* interpreter exits with status 0
SuiteReturn ==
  /\ pc = "suite_return"
  /\ pc' = "exited"
  /\ exit_status' = 0
  /\ UNCHANGED <<caller, calls, invoked, last_exit, clock, Shared, Frame>>

\* An exception nobody catches leaves run_chaos_suite and main: the
\* interpreter prints the traceback and exits with status 1
Uncaught ==
  /\ pc = "uncaught"
  /\ pc' = "exited"
  /\ exit_status' = 1
  /\ UNCHANGED <<caller, calls, invoked, last_exit, clock, Shared, Frame>>

\* A client calls one public method of the framework.
ClientCall ==
  /\ pc = "idle"
  /\ calls < MaxCalls
  /\ \E m \in Methods : Call(m)
  /\ calls' = calls + 1
  /\ UNCHANGED <<caller, exit_status, last_exit, clock, Shared, Frame>>

\* ------------------------------------------------------- specifications
\* ChaosFramework.__init__ (lines 35-38) and the locals before any call
Fresh ==
  /\ invoked = <<>>
  /\ last_exit = NoExit
  /\ exit_status = 0 - 1
  /\ clock = 0
  /\ conn = "None"
  /\ baseline_metrics = <<>>
  /\ experiment = NoExperiment
  /\ assigned = 0
  /\ connections = <<>>
  /\ extra_conn = "None"
  /\ orphaned = 0
  /\ latency = 0
  /\ i = 0
  /\ success_count = 0
  /\ failure_count = 0
  /\ attempts = 0
  /\ queries = 0
  /\ backoffs = 0
  /\ report = NoReport

MethodStep ==
  \/ Connect
  \/ SetupCursor \/ SetupExecute \/ SetupClose
  \/ BaseCursor \/ BaseLatency \/ BaseConnections
  \/ CpuNew \/ CpuStart \/ CpuCursor \/ CpuExecute \/ CpuFetchall \/ CpuClose \/ CpuEnd
  \/ SatNew \/ SatStart \/ SatAcquire \/ SatHold \/ SatProbe \/ SatProbeClose
  \/ SatCleanup \/ SatEnd
  \/ SlowNew \/ SlowStart \/ SlowCursor \/ SlowSleep \/ SlowMeasure \/ SlowObserve
  \/ SlowClose \/ SlowEnd
  \/ RandNew \/ RandStart \/ RandCursor \/ RandTrial \/ RandDivZero \/ RandSelect
  \/ RandFetch \/ RandObserve \/ RandClose \/ RandEnd
  \/ RecCursor \/ RecExecute \/ RecFetch \/ RecSleep \/ RecGiveUp \/ RecClose
  \/ GenerateReport

\* main() running run_chaos_suite()
Init ==
  /\ pc = "main"
  /\ caller = "run_chaos_suite"
  /\ calls = 0
  /\ experiments = <<>>
  /\ Fresh

Next == Main \/ SuiteCall \/ Sleep \/ SuiteReturn \/ Uncaught \/ MethodStep

Spec == Init /\ [][Next]_vars

\* A client that constructs a ChaosFramework and calls its methods directly
InitApi ==
  /\ pc = "idle"
  /\ caller = "client"
  /\ calls = 0
  /\ experiments = <<>>
  /\ Fresh

NextApi == ClientCall \/ MethodStep

SpecApi == InitApi /\ [][NextApi]_vars

\* Both ways of driving the framework: the suite run and the direct client
InitAll == Init \/ InitApi

NextAll == Next \/ ClientCall

SpecAll == InitAll /\ [][NextAll]_vars

\* generate_report as a function of the registry: the registry is any sequence
\* of at most MaxExp experiments as inject_high_cpu_load records them
Recorded(r) ==
  LET e == Started(ChaosExperiment("High CPU Load"), 0)
  IN [(IF r = "completed"
       THEN SetResult(Observe(e, Obs("CPU-intensive query executed", "", 0, 0)),
                      "completed")
       ELSE Failed(e, "query")) EXCEPT !.end_time = 0]

Outcomes == UNION {[1..n -> {"completed", "failed"}] : n \in 0..MaxExp}

InitReport ==
  /\ pc = "report"
  /\ caller = "client"
  /\ calls = MaxCalls
  /\ \E rs \in Outcomes : experiments = [k \in 1..Len(rs) |-> Recorded(rs[k])]
  /\ Fresh

NextReport == GenerateReport

SpecReport == InitReport /\ [][NextReport]_vars

\* ================================================================ claims
Range(seq) == {seq[k] : k \in DOMAIN seq}

Terminal == {"completed", "failed"}

\* The last method left was m, and it raised.
RaisedIn(m) == last_exit = <<m, "raised">>

\* Number of experiments of reg with result r, counted by index.
CountOf(reg, r) == Cardinality({k \in DOMAIN reg : reg[k].result = r})

\* C1: once run_chaos_suite has invoked the first injector, no failing database
\* operation of an injector aborts the sequence: no injector raises out of
\* run_chaos_suite, and by the time the process exits all four injectors have
\* been invoked and each has its experiment in the registry.
C1_InjectorFailureNeverAborts ==
  /\ \A m \in Injectors : ~RaisedIn(m)
  /\ (pc = "exited" /\ "inject_high_cpu_load" \in Range(invoked)) =>
       /\ Injectors \subseteq Range(invoked)
       /\ Len(experiments) = Cardinality(Injectors)

\* C2: once inject_connection_saturation has handed control back (by return or
\* by exception), every session it opened is closed: the process holds exactly
\* the sessions it held before the injector started, the primary one.
C2_SaturationReleasesEverySession ==
  (last_exit[1] = "inject_connection_saturation") =>
     OpenSessions = (IF conn = "open" THEN 1 ELSE 0)

\* C3: a run in which connect, setup and capture_baseline succeeded does not
\* end without generate_report having produced the report.
C3_ReportAfterSetup ==
  (pc = "exited" /\ "query_latency_ms" \in DOMAIN baseline_metrics) =>
     report.printed

\* Control locations at which an injector is about to touch the database.
InjectorDbLocations ==
  {"cpu_cursor", "cpu_execute", "cpu_fetchall", "cpu_close",
   "sat_acquire", "sat_probe", "sat_probe_close", "sat_cleanup",
   "slow_cursor", "slow_sleep", "slow_measure", "slow_close",
   "rand_cursor", "rand_divzero", "rand_select", "rand_fetch", "rand_close"}

\* Control locations of run_chaos_suite itself, between two method calls.
SuiteLocations ==
  DOMAIN CallSite \cup DOMAIN AfterSleep \cup {"suite_return", "uncaught", "exited"}

\* C4: an experiment's result starts unset, is assigned a terminal value exactly
\* once (at most once while the injector runs, once when the injector has been
\* left) and then keeps it; start_time is set before the injector's first
\* database operation; every registry entry has a terminal result and
\* end_time >= start_time.
C4_ResultTerminalExactlyOnce ==
  /\ pc \in {"cpu_start", "sat_start", "slow_start", "rand_start"} =>
       (experiment.result = "None" /\ assigned = 0)
  /\ assigned <= 1
  /\ (assigned = 1) = (experiment.result \in Terminal)
  /\ (last_exit[1] \in Injectors /\ pc \in SuiteLocations) => assigned = 1
  /\ pc \in InjectorDbLocations => experiment.start_time /= NoTime
  /\ \A k \in DOMAIN experiments :
       /\ experiments[k].result \in Terminal
       /\ experiments[k].start_time /= NoTime
       /\ experiments[k].end_time >= experiments[k].start_time

\* C5: when connect fails, run_chaos_suite calls nothing else, the registry
\* stays empty, no report is printed, and the run ends with a signal (an exit
\* status other than 0, the status of a successful run) that tells it apart
\* from a successful run.
C5_ConnectFailureIsFatal ==
  (pc = "exited" /\ conn = "None") =>
     /\ invoked = <<"connect">>
     /\ experiments = <<>>
     /\ ~report.printed
     /\ exit_status /= 0

\* C6: test_recovery_time never raises, and when every liveness query has
\* failed it has issued exactly max_attempts queries and ends with
\* attempts = max_attempts.
C6_RecoveryNeverRaises ==
  /\ ~RaisedIn("test_recovery_time")
  /\ (pc = "rec_close" /\ backoffs = queries) =>
       (queries = max_attempts /\ attempts = max_attempts)

\* A step of inject_random_failures that executes a query of a trial.
RandQueryLocations == {"rand_divzero", "rand_select", "rand_fetch"}

\* A step taken while a trial's query executes either stays in the trial with
\* the counters unchanged or ends the trial with exactly one counter one higher.
TrialCountedOnce ==
  pc \in RandQueryLocations =>
    \/ (i' = i /\ UNCHANGED <<success_count, failure_count>>)
    \/ /\ i' = i + 1
       /\ \/ success_count' = success_count + 1 /\ failure_count' = failure_count
          \/ success_count' = success_count /\ failure_count' = failure_count + 1

\* C7: every trial of inject_random_failures adds exactly 1 to exactly one of
\* success_count and failure_count, whatever was drawn and whatever the
\* queries did, so the counters sum to the number of trials done and to 10
\* when the observation is recorded.
C7_EachTrialCountedOnce ==
  /\ [](pc \in RandQueryLocations \cup {"rand_trial"} =>
          (i <= trials /\ success_count + failure_count = i))
  /\ [](pc = "rand_close" =>
          LET o == experiment.observations[Len(experiment.observations)]
          IN o.x = success_count /\ o.y = failure_count /\ o.x + o.y = trials)
  /\ [][TrialCountedOnce]_vars

\* C7 witness: the observation is being recorded after trials of both kinds.
C7_Witness ==
  pc = "rand_close" /\ success_count = 7 /\ failure_count = 3

\* C8: the score generate_report prints is 100 * completed / total, 0 for an
\* empty registry, within 0..100, and no lower than the score of any registry
\* of the same length with no more completed experiments.
C8_ScoreIsCompletedShare ==
  report.printed =>
    LET t == Len(experiments)
        c == CountOf(experiments, "completed")
        q == report.score
    IN /\ q.den > 0
       /\ q.num * t = 100 * c * q.den
       /\ (t = 0 => q.num = 0)
       /\ 0 <= q.num /\ q.num <= 100 * q.den
       /\ report.total = t /\ report.completed = c
       /\ \A rs \in Outcomes :
            LET reg == [k \in 1..Len(rs) |-> Recorded(rs[k])]
            IN (Len(rs) = t /\ CountOf(reg, "completed") <= c) =>
                 Score(reg).num * q.den <= q.num * Score(reg).den

\* C8 witness: a report over three experiments, two of them completed.
C8_Witness ==
  report.printed /\ report.total = 3 /\ report.completed = 2

\* C9: the assessment is the first tier, top-down, whose inclusive threshold the
\* score reaches: >= 80 EXCELLENT, >= 60 GOOD, >= 40 FAIR, else NEEDS
\* IMPROVEMENT; 3 of 5 gives GOOD and 2 of 5 gives FAIR.
C9_TierThresholdsInclusive ==
  report.printed =>
    LET t == Len(experiments)
        c == CountOf(experiments, "completed")
    IN /\ report.assessment =
            IF t > 0 /\ 100 * c >= 80 * t THEN "EXCELLENT"
            ELSE IF t > 0 /\ 100 * c >= 60 * t THEN "GOOD"
            ELSE IF t > 0 /\ 100 * c >= 40 * t THEN "FAIR"
            ELSE "NEEDS IMPROVEMENT"
       /\ (t = 5 /\ c = 3) => report.assessment = "GOOD"
       /\ (t = 5 /\ c = 2) => report.assessment = "FAIR"

\* C9 witness: a report over five experiments, three of them completed, on the
\* boundary of GOOD.
C9_Witness ==
  /\ report.printed
  /\ report.total = 5
  /\ report.completed = 3
  /\ report.assessment = "GOOD"

\* C10: inject_slow_queries called on a connected framework with no baseline
\* does not raise and records no degradation: it appends its experiment with
\* result 'failed' and an error observation naming the missing baseline key.
C10_MissingBaselineRecordedAsFailed ==
  (/\ pc = "idle"
   /\ last_exit[1] = "inject_slow_queries"
   /\ conn = "open"
   /\ baseline_metrics = <<>>) =>
     /\ last_exit[2] = "returned"
     /\ experiments /= <<>>
     /\ LET e == experiments[Len(experiments)]
        IN /\ e.name = "Slow Query Injection"
           /\ e.result = "failed"
           /\ \E k \in DOMAIN e.observations :
                /\ e.observations[k].text = "Error"
                /\ e.observations[k].detail = "KeyError: 'query_latency_ms'"
           /\ \A k \in DOMAIN e.observations :
                e.observations[k].text /= "Performance degradation"

\* The observations of experiment e whose text is t.
ObsOf(e, t) == SelectSeq(e.observations, LAMBDA o : o.text = t)

\* C11: a completed slow-query experiment, measured at latency m against a
\* baseline b > 0, records degradation = (m - b) / b * 100: 9900 for b = 5 and
\* m = 500, 0 for m = b.
C11_DegradationFormula ==
  \A k \in DOMAIN experiments :
    LET e == experiments[k]
    IN (e.name = "Slow Query Injection" /\ e.result = "completed") =>
         /\ Len(ObsOf(e, "Query latency during chaos")) = 1
         /\ Len(ObsOf(e, "Baseline latency")) = 1
         /\ Len(ObsOf(e, "Performance degradation")) = 1
         /\ LET m == ObsOf(e, "Query latency during chaos")[1].x
                b == ObsOf(e, "Baseline latency")[1].x
                d == ObsOf(e, "Performance degradation")[1]
            IN /\ b = baseline_metrics["query_latency_ms"]
               /\ b > 0
               /\ d.y > 0
               /\ d.x * b = (m - b) * 100 * d.y
               /\ (b = 5 /\ m = 500) => (d.x = 9900 /\ d.y = 1)
               /\ (m = b) => d.x = 0

\* C11 witness: a recorded slow-query experiment with baseline 5 and measured
\* latency 500, whose degradation is 9900.
C11_Witness ==
  \E k \in DOMAIN experiments :
    /\ experiments[k].name = "Slow Query Injection"
    /\ experiments[k].result = "completed"
    /\ ObsOf(experiments[k], "Baseline latency")[1].x = 5
    /\ ObsOf(experiments[k], "Query latency during chaos")[1].x = 500
    /\ ObsOf(experiments[k], "Performance degradation")[1].x = 9900

\* The order in which run_chaos_suite calls the methods, and the names the
\* four injectors give their experiments, in that order.
SuiteOrder ==
  <<"connect", "setup", "capture_baseline", "inject_high_cpu_load",
    "inject_connection_saturation", "inject_slow_queries",
    "inject_random_failures", "test_recovery_time", "generate_report">>

ExperimentNames ==
  <<"High CPU Load", "Connection Saturation", "Slow Query Injection",
    "Random Transaction Failures">>

\* Control locations inside an injector.
InjectorLocations ==
  InjectorDbLocations \cup
  {"cpu_new", "cpu_start", "cpu_end", "sat_new", "sat_start",
   "slow_new", "slow_start", "slow_observe", "slow_end",
   "rand_new", "rand_start", "rand_trial", "rand_end"}

\* C12: the suite calls connect, setup, capture_baseline, the four injectors,
\* test_recovery_time and generate_report in this order; while the k-th
\* injector runs the k-1 earlier ones are in the registry with a terminal
\* result and the pause after the previous one has elapsed; the registry
\* lists the experiments in execution order, none overlapping the next.
C12_PhasesInOrder ==
  /\ Len(invoked) <= Len(SuiteOrder)
  /\ invoked = SubSeq(SuiteOrder, 1, Len(invoked))
  /\ Len(experiments) <= Len(ExperimentNames)
  /\ \A k \in DOMAIN experiments :
       /\ experiments[k].name = ExperimentNames[k]
       /\ experiments[k].result \in Terminal
       /\ k > 1 => experiments[k - 1].end_time < experiments[k].start_time
  /\ pc \in InjectorLocations =>
       LET k == Len(invoked) - 3
       IN /\ k \in 1..4
          /\ invoked[Len(invoked)] \in Injectors
          /\ Len(experiments) = k - 1
          /\ k > 1 => experiments[k - 1].end_time < clock
  /\ report.printed => (Len(experiments) = 4 /\ Len(invoked) = 9)

\* C12 witness: a complete run, all nine calls made and four experiments
\* recorded.
C12_Witness ==
  pc = "exited" /\ Len(invoked) = 9 /\ Len(experiments) = 4 /\ report.printed

\* C13: every experiment in the registry has at least one observation, and a
\* registry experiment with result 'failed' has an "Error: ..." observation
\* carrying the description of the error.
C13_ObservationsRecorded ==
  \A k \in DOMAIN experiments :
    LET e == experiments[k]
    IN /\ Len(e.observations) >= 1
       /\ e.result = "failed" =>
            \E n \in DOMAIN e.observations :
              /\ e.observations[n].text = "Error"
              /\ e.observations[n].detail /= ""
       /\ e.result = "completed" => ObsOf(e, "Error") = <<>>

\* C13 witness: the registry holds a failed experiment next to a completed one.
C13_Witness ==
  /\ Len(experiments) >= 2
  /\ experiments[1].result = "failed"
  /\ experiments[2].result = "completed"

\* Control locations of test_recovery_time.
RecLocations == {"rec_cursor", "rec_loop", "rec_fetch", "rec_sleep", "rec_close"}

\* The step leaves an injector by a normal return.
InjectorReturns ==
  /\ pc \in InjectorLocations
  /\ pc' \notin InjectorLocations
  /\ last_exit'[2] = "returned"

\* A step keeps the registry as a prefix of the new registry; the registry
\* grows, by exactly one experiment, exactly when an injector returns;
\* test_recovery_time and generate_report leave it alone; and what
\* generate_report prints is determined by the registry, so printing again from
\* an unchanged registry prints the same score and assessment.
AppendOnlyStep ==
  /\ Len(experiments') >= Len(experiments)
  /\ SubSeq(experiments', 1, Len(experiments)) = experiments
  /\ (Len(experiments') = Len(experiments) + 1) = InjectorReturns
  /\ Len(experiments') \in {Len(experiments), Len(experiments) + 1}
  /\ pc \in RecLocations \cup {"report"} => experiments' = experiments
  /\ pc = "report" =>
       /\ report'.printed
       /\ report'.total = Len(experiments)
       /\ report'.score.num * Len(experiments)
            = 100 * CountOf(experiments, "completed") * report'.score.den
       /\ (report.printed /\ report.total = Len(experiments)) =>
            (report'.score = report.score /\ report'.assessment = report.assessment)

\* C14: the registry is append-only; every returning injector appends exactly
\* one experiment; test_recovery_time and generate_report change neither the
\* registry nor a recorded experiment; generate_report repeated on the same
\* registry gives the same score and tier.
C14_RegistryAppendOnly == [][AppendOnlyStep]_vars

\* C14 witness: generate_report has run on a registry an injector appended to,
\* and the registry still holds that one experiment.
C14_Witness ==
  /\ invoked = <<"inject_connection_saturation", "generate_report">>
  /\ pc = "idle"
  /\ report.printed
  /\ Len(experiments) = 1

BaselineKeys == {"query_latency_ms", "active_connections", "timestamp"}

\* baseline_metrics changes only in the assignment that ends capture_baseline,
\* from empty to the full set, before any injector has been called.
BaselineWrittenOnce ==
  baseline_metrics' /= baseline_metrics =>
    /\ pc = "base_connections"
    /\ baseline_metrics = <<>>
    /\ DOMAIN baseline_metrics' = BaselineKeys
    /\ Range(invoked) \cap Injectors = {}

\* C15: in a suite run baseline_metrics is written once, by capture_baseline
\* and before any injector starts; it is empty or holds latency, connection
\* count and timestamp together; injectors, test_recovery_time and
\* generate_report never change it.
C15_BaselineWrittenOnceAtomically ==
  /\ [](DOMAIN baseline_metrics \in {{}, BaselineKeys})
  /\ [](Range(invoked) \cap (Injectors \cup {"test_recovery_time", "generate_report"}) /= {}
          => DOMAIN baseline_metrics = BaselineKeys)
  /\ [][BaselineWrittenOnce]_vars

\* C15 witness: inject_slow_queries is reading the baseline captured earlier.
C15_Witness ==
  pc = "slow_observe" /\ DOMAIN baseline_metrics = BaselineKeys

\* C16: the process ends with exit status 0 exactly when connect, setup and
\* capture_baseline succeeded, whatever the experiments did, and with a
\* nonzero status exactly when that initial phase failed.
C16_ExitStatusReflectsSetup ==
  pc = "exited" =>
    ((exit_status = 0) = (DOMAIN baseline_metrics = BaselineKeys))

\* C17: when run_chaos_suite returns, no session opened during the run is
\* still open, the primary session of connect included.
C17_NoSessionLeftOpen ==
  pc = "suite_return" => OpenSessions = 0

\* A step of the recovery loop: a successful query ends the loop, a failed
\* one adds 1 to attempts and goes to the backoff sleep, nothing else sleeps,
\* and queries are issued only by the loop while attempts < max_attempts.
RecoveryStep ==
  /\ (pc = "rec_fetch" /\ attempts' = attempts) => pc' = "rec_close"
  /\ (pc \in {"rec_loop", "rec_fetch"} /\ attempts' /= attempts) =>
       (attempts' = attempts + 1 /\ pc' = "rec_sleep")
  /\ (pc' = "rec_sleep" /\ pc /= "rec_sleep") => attempts' = attempts + 1
  /\ backoffs' /= backoffs => (pc = "rec_sleep" /\ backoffs' = backoffs + 1)
  /\ queries' /= queries =>
       (pc = "rec_loop" /\ attempts < max_attempts /\ queries' = queries + 1)
  /\ pc = "rec_close" => (queries' = queries /\ attempts' = attempts)

\* C18: test_recovery_time stops at the first successful liveness query and
\* issues none after it; attempts counts the failed queries issued before it
\* and never exceeds max_attempts; a backoff sleep follows every failed query
\* and nothing else.
C18_RecoveryStopsAtFirstSuccess ==
  /\ [](pc \in RecLocations \ {"rec_cursor"} => attempts <= max_attempts)
  /\ [](pc = "rec_loop" => (queries = attempts /\ backoffs = attempts))
  /\ [](pc = "rec_fetch" =>
          (queries = attempts + 1 /\ backoffs = attempts /\ attempts < max_attempts))
  /\ [](pc = "rec_sleep" => (queries = attempts /\ backoffs = attempts - 1))
  /\ [](pc = "rec_close" =>
          /\ backoffs = attempts
          /\ \/ queries = attempts + 1
             \/ (queries = attempts /\ attempts = max_attempts))
  /\ [][RecoveryStep]_vars

\* C18 witness: the fourth liveness query succeeded after three failed ones.
C18_Witness ==
  pc = "rec_close" /\ attempts = 3 /\ queries = 4 /\ backoffs = 3

\* Number of probe observations of experiment e.
ProbeObservations(e) ==
  Len(ObsOf(e, "Additional connection succeeded"))
  + Len(ObsOf(e, "Additional connection blocked (expected)"))

\* Every session of the list is open.
AllOpen(s) == \A k \in DOMAIN s : s[k] = "open"

\* C19: in inject_connection_saturation the probe session is attempted only
\* with all max_connections sessions held and open, after the hold period,
\* before any of them is released; once all sessions were acquired exactly one
\* of the two probe observations is recorded and the result is 'completed'.
C19_OneProbeAfterSaturation ==
  /\ pc \in {"sat_probe", "sat_probe_close"} =>
       /\ Len(connections) = max_connections
       /\ AllOpen(connections)
       /\ Len(ObsOf(experiment, "Created connections")) = 1
       /\ ObsOf(experiment, "Created connections")[1].x = max_connections
       /\ clock > experiment.start_time
       /\ ProbeObservations(experiment) = 0
       /\ experiment.result = "None"
  /\ extra_conn /= "None" => pc \in {"sat_probe_close", "sat_cleanup"}
  /\ (pc = "sat_cleanup" /\ Len(connections) = max_connections) =>
       /\ ProbeObservations(experiment) = 1
       /\ experiment.result = "completed"
  /\ (pc = "sat_cleanup" /\ Len(connections) < max_connections) =>
       ProbeObservations(experiment) = 0
  /\ \A k \in DOMAIN experiments :
       ObsOf(experiments[k], "Created connections") /= <<>> =>
         /\ ProbeObservations(experiments[k]) = 1
         /\ experiments[k].result = "completed"

\* C19 witness: the saturation experiment is recorded with the probe having
\* got through.
C19_Witness ==
  /\ Len(experiments) >= 2
  /\ experiments[2].name = "Connection Saturation"
  /\ ObsOf(experiments[2], "Additional connection succeeded") /= <<>>

\* inject_connection_saturation has been left after one of its acquisition
\* connects failed.
AcquisitionFailed ==
  /\ last_exit[1] = "inject_connection_saturation"
  /\ experiment.name = "Connection Saturation"
  /\ experiment.result = "failed"

\* C20: when opening one of the held sessions fails, no probe is attempted and
\* neither the 'Created' nor a probe observation is recorded, the sessions
\* already held are closed, the experiment is appended with result 'failed'
\* and an error observation, and the failure does not reach the caller.
C20_FailedAcquisitionRecorded ==
  AcquisitionFailed =>
    /\ last_exit[2] = "returned"
    /\ OpenSessions = (IF conn = "open" THEN 1 ELSE 0)
    /\ experiments /= <<>>
    /\ LET e == experiments[Len(experiments)]
       IN /\ e.name = "Connection Saturation"
          /\ e.result = "failed"
          /\ ObsOf(e, "Error") /= <<>>
          /\ ObsOf(e, "Created connections") = <<>>
          /\ ProbeObservations(e) = 0

====
